---- MODULE Spec2Model ----
(***************************************************************************)
(* Model of export.py: a single sequential run of main() over a PocketBook *)
(* annotation store (tables Books, Files, Items, Tags, TagNames), building *)
(* Book objects with their highlights, notes and bookmarks, rendering them *)
(* into one document and writing it to export.html.                        *)
(*                                                                         *)
(* Python values are tagged tuples: None is <<"None">>, a str is           *)
(* <<"str", s>>, a bytes value is <<"bytes", b>>.  A str that holds a JSON  *)
(* document is <<"json", o>> (o the object it encodes, a record) and a str  *)
(* that is not well-formed JSON is <<"badjson">>.  An exception is a       *)
(* result record with raised = TRUE; main() has no handler, so a raised    *)
(* exception ends the run.                                                 *)
(***************************************************************************)
EXTENDS Integers, Sequences, FiniteSets, TLC

VARIABLES store, con, pc, bi, books, doc, file, trace

vars == <<store, con, pc, bi, books, doc, file, trace>>

\* Number of rows of the Items table of the stores explored.
MaxItems == 2

\* Number of key=value pairs of an anchor's query component.
MaxQueryLen == 3

None == <<"None">>

Str(s) == <<"str", s>>

Bytes(b) == <<"bytes", b>>

Json(o) == <<"json", o>>

BadJson == <<"badjson">>

Ok(v) == [raised |-> FALSE, value |-> v]

Raise(e) == [raised |-> TRUE, value |-> Str(e)]

----------------------------------------------------------------------------
(* Sequence helpers *)

RECURSIVE Flatten(_)
Flatten(ss) == IF ss = <<>> THEN <<>> ELSE Head(ss) \o Flatten(Tail(ss))

\* The sequence of F's values over s, computed once.
Map(s, F(_)) == SubSeq([k \in 1..Len(s) |-> F(s[k])], 1, Len(s))

----------------------------------------------------------------------------
(* The store: the tables the queries read *)

TagNames ==
  << [OID |-> 1, TagName |-> "bm.type"],
     [OID |-> 2, TagName |-> "bm.quotation"],
     [OID |-> 3, TagName |-> "bm.note"],
     [OID |-> 4, TagName |-> "bm.book_mark"],
     [OID |-> 5, TagName |-> "bm.image"] >>

BooksTable ==
  << <<1, Str("Dune"), Str("Frank Herbert")>>,
     <<2, Str("Notes"), None>> >>

FilesTable == << [BookID |-> 1, Name |-> Str("dune.epub")] >>

----------------------------------------------------------------------------
(* Domain classes *)

Book(oid, title, authors) ==
  [oid |-> oid, title |-> title, authors |-> authors, file_name |-> None,
   notes |-> <<>>, bookmarks |-> <<>>, highlights |-> <<>>]

Highlight(text, snapshot) == [text |-> text, snapshot |-> snapshot]

Note(quotation, note) == [quotation |-> quotation, note |-> note]

Bookmark(page, text, created) == [page |-> page, text |-> text, created |-> created]

----------------------------------------------------------------------------
(* Library functions the builders call, by what they do to these values *)

\* json.loads: the object of a well-formed document; TypeError on None,
\* JSONDecodeError on any other str.
json_loads(val) ==
  IF val = None THEN Raise("TypeError")
  ELSE IF val[1] = "json" THEN Ok(val[2])
  ELSE Raise("JSONDecodeError")

\* o[key] on a dict.
getitem(o, key) == IF key \in DOMAIN o THEN Ok(o[key]) ELSE Raise("KeyError")

\* datetime.fromtimestamp
fromtimestamp(secs) == <<"datetime", secs>>

\* urlparse(anchor).query: an anchor is held by its components, the query
\* component as the sequence of its '&'-separated name=value pairs (a pair
\* with no '=' or nothing after it has value "").
urlparse_query(anchor) == anchor[2].query

\* parse_qs with its defaults (keep_blank_values=False): pairs with a blank
\* value are dropped, the rest are grouped by name, values in order.
parse_qs(qs) ==
  LET kept == SelectSeq(qs, LAMBDA nv : nv.value # "")
      names == {kept[k].name : k \in 1..Len(kept)}
  IN [n \in names |->
        Map(SelectSeq(kept, LAMBDA nv : nv.name = n), LAMBDA nv : nv.value)]

\* The decimal strings of the model and the integers they denote.
Decimal == ("7" :> 7) @@ ("42" :> 42)

\* int(s): ValueError unless s is a decimal literal.
int(s) == IF s \in DOMAIN Decimal THEN Ok(Decimal[s]) ELSE Raise("ValueError")

\* base64.b64encode(image).decode('utf8')
b64encode(image) == <<"b64", image[2]>>

----------------------------------------------------------------------------
(* Queries *)

get_books(db) == Map(db.Books, LAMBDA row : Book(row[1], row[2], row[3]))

get_file_name(db, book_oid) ==
  LET rows == SelectSeq(db.Files, LAMBDA f : f.BookID = book_oid)
  IN IF rows = <<>> THEN None ELSE rows[1].Name

\* The rows of A JOIN B before any condition: every pair, A's rows outermost.
Join(A, B) ==
  [k \in 1..(Len(A) * Len(B)) |->
     <<A[((k - 1) \div Len(B)) + 1], B[((k - 1) % Len(B)) + 1]>>]

\* select_items without the condition i.State = 0.
select_items_unfiltered_state(db, book_oid, type_val) ==
  LET rows == SelectSeq(Join(Join(db.Items, db.Tags), db.TagNames),
                 LAMBDA r :
                   LET i == r[1][1]
                       t == r[1][2]
                       tn == r[2]
                   IN /\ t.ItemID = i.OID
                      /\ tn.OID = t.TagID
                      /\ i.ParentID = book_oid
                      /\ tn.TagName = "bm.type"
                      /\ t.Val = type_val)
  IN [k \in 1..Len(rows) |-> rows[k][1][2].ItemID]

\* Items i JOIN Tags t JOIN TagNames tn with the WHERE clause, giving
\* t.ItemID; rows in the order of Items, then Tags.
select_items(db, book_oid, type_val) ==
  LET rows == SelectSeq(Join(Join(db.Items, db.Tags), db.TagNames),
                 LAMBDA r :
                   LET i == r[1][1]
                       t == r[1][2]
                       tn == r[2]
                   IN /\ t.ItemID = i.OID
                      /\ tn.OID = t.TagID
                      /\ i.ParentID = book_oid
                      /\ i.State = 0
                      /\ tn.TagName = "bm.type"
                      /\ t.Val = type_val)
  IN [k \in 1..Len(rows) |-> rows[k][1][2].ItemID]

\* Tags t JOIN TagNames tn for one item and one tag name, giving t.Val.
tag_rows(db, item_id, tag) ==
  LET rows == SelectSeq(Join(db.Tags, db.TagNames),
                 LAMBDA r : /\ r[2].OID = r[1].TagID
                            /\ r[1].ItemID = item_id
                            /\ r[2].TagName = tag)
  IN [k \in 1..Len(rows) |-> rows[k][1].Val]

select_quotation(db, item_id) ==
  LET rows == tag_rows(db, item_id, "bm.quotation")
  IN IF rows = <<>> THEN Ok(None)
     ELSE LET o == json_loads(rows[1])
          IN IF o.raised THEN o ELSE getitem(o.value, "text")

select_tag_value(db, item_id, tag) ==
  LET rows == tag_rows(db, item_id, tag)
  IN IF rows = <<>> THEN None ELSE rows[1]

----------------------------------------------------------------------------
(* Entity builders *)

\* build_all with the entities in reverse order.
build_all_reversed(rs) ==
  LET bad == {k \in 1..Len(rs) : rs[k].raised}
  IN IF bad = {} THEN Ok([k \in 1..Len(rs) |-> rs[Len(rs) + 1 - k].value])
     ELSE rs[CHOOSE k \in bad : \A j \in bad : k <= j]

\* A builder's loop over the item ids, rs[k] being what the loop body does
\* with the k-th id: the entities in order, or the exception of the first
\* item whose step raises (nothing is caught, the loop ends there).
build_all(rs) ==
  LET bad == {k \in 1..Len(rs) : rs[k].raised}
  IN IF bad = {} THEN Ok([k \in 1..Len(rs) |-> rs[k].value])
     ELSE rs[CHOOSE k \in bad : \A j \in bad : k <= j]

highlight_of(db, item_id) ==
  LET text == select_quotation(db, item_id)
      snapshot == select_tag_value(db, item_id, "bm.image")
  IN IF text.raised THEN text ELSE Ok(Highlight(text.value, snapshot))

get_highlights(db, book_oid) ==
  build_all(Map(select_items(db, book_oid, Str("highlight")),
                LAMBDA item_id : highlight_of(db, item_id)))

note_of(db, item_id) ==
  LET quotation == select_quotation(db, item_id)
      val == select_tag_value(db, item_id, "bm.note")
      o == json_loads(val)
      note == getitem(o.value, "text")
  IN IF quotation.raised THEN quotation
     ELSE IF o.raised THEN o
     ELSE IF note.raised THEN note
     ELSE Ok(Note(quotation.value, note.value))

get_notes(db, book_oid) ==
  build_all(Map(select_items(db, book_oid, Str("note")),
                LAMBDA item_id : note_of(db, item_id)))

\* query['page'][-1]
first_page_last(query) ==
  IF "page" \in DOMAIN query THEN Ok(query["page"][Len(query["page"])])
  ELSE Raise("KeyError")

\* query['page'][0]
first_page(query) ==
  IF "page" \in DOMAIN query THEN Ok(query["page"][1]) ELSE Raise("KeyError")

bookmark_of(db, item_id) ==
  LET text == select_quotation(db, item_id)
      val == select_tag_value(db, item_id, "bm.book_mark")
      o == json_loads(val)
      created == getitem(o.value, "created")
      anchor == getitem(o.value, "anchor")
      query == parse_qs(urlparse_query(anchor.value))
      first == first_page(query)
      page == int(first.value)
  IN IF text.raised THEN text
     ELSE IF o.raised THEN o
     ELSE IF created.raised THEN created
     ELSE IF anchor.raised THEN anchor
     ELSE IF first.raised THEN first
     ELSE IF page.raised THEN page
     ELSE Ok(Bookmark(page.value, text.value, fromtimestamp(created.value)))

get_bookmarks(db, book_oid) ==
  build_all(Map(select_items(db, book_oid, Str("bookmark")),
                LAMBDA item_id : bookmark_of(db, item_id)))

----------------------------------------------------------------------------
(* Rendering: an element is <<tag, ...>> *)

p(child) == <<"p", child>>

fstr(prefix, value) == <<"fstr", prefix, value>>

img(b64) == <<"img", "data:image/jpeg;base64", b64>>

\* Highlight.render emitting the image in place of the text.
Highlight_render_exclusive(h) ==
  <<"div", IF h.snapshot # None THEN <<img(b64encode(h.snapshot))>> ELSE <<p(h.text)>> >>

Highlight_render(h) ==
  <<"div", <<p(h.text)>> \o
           (IF h.snapshot # None THEN <<img(b64encode(h.snapshot))>> ELSE <<>>)>>

Note_render(n) == <<"div", <<p(n.note), <<"blockquote", p(n.quotation)>> >> >>

Bookmark_render(b) ==
  <<"div", <<p(fstr("Page: ", b.page)), p(fstr("Text: ", b.text)),
             p(fstr("Created: ", b.created))>> >>

\* One h3 with its ol; each li holds the entity's div.
\* `rendered` holds what each entity's render() emits.
section(title, rendered) ==
  IF Len(rendered) > 0
  THEN << [h3 |-> title, ol |-> Map(rendered, LAMBDA e : <<"li", e>>)] >>
  ELSE <<>>

\* Book.render without the early return.
Book_render_always(book) ==
  << [h2 |-> book.title,
      lines |-> (IF book.authors # None
                 THEN <<p(fstr("Authors: ", book.authors))>> ELSE <<>>)
                \o <<p(fstr("File: ", book.file_name))>>,
      sections |-> section("Bookmarks", Map(book.bookmarks, Bookmark_render))
                   \o section("Highlights", Map(book.highlights, Highlight_render))
                   \o section("Notes", Map(book.notes, Note_render))] >>

\* Book.render with the highlights block before the bookmarks block.
Book_render_highlights_first(book) ==
  IF Len(book.highlights) = 0 /\ Len(book.notes) = 0 /\ Len(book.bookmarks) = 0
  THEN <<>>
  ELSE << [h2 |-> book.title,
           lines |-> (IF book.authors # None
                      THEN <<p(fstr("Authors: ", book.authors))>> ELSE <<>>)
                     \o <<p(fstr("File: ", book.file_name))>>,
           sections |-> section("Highlights", Map(book.highlights, Highlight_render))
                        \o section("Bookmarks", Map(book.bookmarks, Bookmark_render))
                        \o section("Notes", Map(book.notes, Note_render))] >>

\* What Book.render adds to the document: nothing, or one div.
Book_render(book) ==
  IF Len(book.highlights) = 0 /\ Len(book.notes) = 0 /\ Len(book.bookmarks) = 0
  THEN <<>>
  ELSE << [h2 |-> book.title,
           lines |-> (IF book.authors # None
                      THEN <<p(fstr("Authors: ", book.authors))>> ELSE <<>>)
                     \o <<p(fstr("File: ", book.file_name))>>,
           sections |-> section("Bookmarks", Map(book.bookmarks, Bookmark_render))
                        \o section("Highlights", Map(book.highlights, Highlight_render))
                        \o section("Notes", Map(book.notes, Note_render))] >>

\* Whether rendering the books hands None to p() as its child: the templating
\* library is no part of this repository, and it may refuse such a child.
passes_none_child(bs) ==
  \E k \in 1..Len(bs) :
     \/ \E j \in 1..Len(bs[k].highlights) : bs[k].highlights[j].text = None
     \/ \E j \in 1..Len(bs[k].notes) :
           bs[k].notes[j].quotation = None \/ bs[k].notes[j].note = None

render_all(bs) == Flatten(Map(bs, Book_render))

----------------------------------------------------------------------------
(* The stores explored *)

Anchor(query) == <<"pbr:/word", [query |-> query]>>

Pair(name, value) == [name |-> name, value |-> value]

BookMarkDoc(query) == Json([created |-> 1600000000, anchor |-> Anchor(query)])

Quote(text) == <<2, Json([text |-> Str(text)])>>

\* The tag rows (TagID, Val) an item may carry.
Shapes ==
  << \* highlights: text; text with an image; the legacy image marker with an
     \* image; an image and no quotation
     << <<1, Str("highlight")>>, Quote("Hello world") >>,
     << <<1, Str("highlight")>>, Quote("Second"), <<5, Bytes("Y")>> >>,
     << <<1, Str("highlight")>>, Quote("Snapshot"), <<5, Bytes("X")>> >>,
     << <<1, Str("highlight")>>, <<5, Bytes("X")>> >>,
     \* notes: decodable; malformed body; body without 'text'
     << <<1, Str("note")>>, Quote("Hello world"), <<3, Json([text |-> Str("My note")])>> >>,
     << <<1, Str("note")>>, Quote("Second"), <<3, BadJson>> >>,
     << <<1, Str("note")>>, Quote("Second"), <<3, Json([txt |-> Str("My note")])>> >>,
     \* bookmarks: with a page; without
     << <<1, Str("bookmark")>>, Quote("Hello world"),
        <<4, BookMarkDoc(<<Pair("offs", "7"), Pair("page", "42")>>)>> >>,
     << <<1, Str("bookmark")>>, <<4, BookMarkDoc(<<Pair("offs", "7")>>)>> >> >>

\* Where an item may sit: (ParentID, State).
Places == { <<1, 0>>, <<1, 1>>, <<2, 0>> }

ItemOID(k) == 10 + k

\* The store whose k-th item sits at places[k] and carries the tag rows tags[k].
MkStore(places, tags) ==
  [Books |-> BooksTable,
   Files |-> FilesTable,
   Items |-> [k \in 1..Len(places) |->
                [OID |-> ItemOID(k), ParentID |-> places[k][1], State |-> places[k][2]]],
   Tags |-> Flatten([k \in 1..Len(tags) |->
                Map(tags[k], LAMBDA tg :
                      [ItemID |-> ItemOID(k), TagID |-> tg[1], Val |-> tg[2]])]),
   TagNames |-> TagNames]

QueryNames == {"page", "offs"}

QueryValues == {"", "7", "42", "x"}

Queries ==
  UNION { [1..n -> {Pair(nm, v) : nm \in QueryNames, v \in QueryValues}] :
          n \in 0..MaxQueryLen }

\* The store with one active bookmark of book 1 whose anchor has query q.
PageStore(q) ==
  MkStore(<< <<1, 0>> >>,
          << << <<1, Str("bookmark")>>, Quote("Hello world"), <<4, BookMarkDoc(q)>> >> >>)

----------------------------------------------------------------------------
(* main() *)

\* export.html before the run: whatever the path held, if anything.
Untouched == [state |-> "untouched", content |-> <<>>]

InitRun ==
  /\ con = "none"
  /\ pc = "connect"
  /\ bi = 0
  /\ books = <<>>
  /\ doc = <<>>
  /\ file = Untouched
  /\ trace = <<>>

\* Any store of at most MaxItems items, each at one of Places with one of Shapes.
Init ==
  /\ \E n \in 0..MaxItems :
       \E pl \in [1..n -> Places], sh \in [1..n -> 1..Len(Shapes)] :
          store = MkStore(pl, [k \in 1..n |-> Shapes[sh[k]]])
  /\ InitRun

InitPage ==
  /\ \E q \in Queries : store = PageStore(q)
  /\ InitRun

\* main() with con.close() after export().
following_close_last(step, i, n) ==
  CASE step = "connect" -> "get_books"
    [] step = "get_books" -> IF n = 0 THEN "render" ELSE "get_file_name"
    [] step = "get_file_name" -> "get_highlights"
    [] step = "get_highlights" -> "get_notes"
    [] step = "get_notes" -> "get_bookmarks"
    [] step = "get_bookmarks" -> IF i < n THEN "get_file_name" ELSE "render"
    [] step = "render" -> "write"
    [] step = "write" -> "close"
    [] step = "close" -> "done"

\* The statement that follows `step` of main() when it raises nothing; n is
\* the number of books, i the index of the book in hand.
following(step, i, n) ==
  CASE step = "connect" -> "get_books"
    [] step = "get_books" -> IF n = 0 THEN "close" ELSE "get_file_name"
    [] step = "get_file_name" -> "get_highlights"
    [] step = "get_highlights" -> "get_notes"
    [] step = "get_notes" -> "get_bookmarks"
    [] step = "get_bookmarks" -> IF i < n THEN "get_file_name" ELSE "close"
    [] step = "close" -> "render"
    [] step = "render" -> "write"
    [] step = "write" -> "done"

\* A run that goes on after an exception.
Goto_swallowing(step, raised, i, n) ==
  /\ pc' = following(step, i, n)
  /\ trace' = Append(trace, step)

\* The run goes on to the next statement, or ends with the exception.
Goto(step, raised, i, n) ==
  /\ pc' = IF raised THEN "aborted" ELSE following(step, i, n)
  /\ trace' = Append(trace, step)

Connect ==
  /\ pc = "connect"
  /\ con' = "open"
  /\ Goto("connect", FALSE, bi, Len(books))
  /\ UNCHANGED <<store, bi, books, doc, file>>

GetBooks ==
  /\ pc = "get_books"
  /\ books' = get_books(store)
  /\ bi' = 1
  /\ Goto("get_books", FALSE, 1, Len(books'))
  /\ UNCHANGED <<store, con, doc, file>>

GetFileName ==
  /\ pc = "get_file_name"
  /\ books' = [books EXCEPT ![bi].file_name = get_file_name(store, books[bi].oid)]
  /\ Goto("get_file_name", FALSE, bi, Len(books))
  /\ UNCHANGED <<store, con, bi, doc, file>>

GetHighlights ==
  /\ pc = "get_highlights"
  /\ LET r == get_highlights(store, books[bi].oid)
     IN /\ books' = IF r.raised THEN books
                    ELSE [books EXCEPT ![bi].highlights = r.value]
        /\ Goto("get_highlights", r.raised, bi, Len(books))
  /\ UNCHANGED <<store, con, bi, doc, file>>

GetNotes ==
  /\ pc = "get_notes"
  /\ LET r == get_notes(store, books[bi].oid)
     IN /\ books' = IF r.raised THEN books
                    ELSE [books EXCEPT ![bi].notes = r.value]
        /\ Goto("get_notes", r.raised, bi, Len(books))
  /\ UNCHANGED <<store, con, bi, doc, file>>

GetBookmarks ==
  /\ pc = "get_bookmarks"
  /\ LET r == get_bookmarks(store, books[bi].oid)
     IN /\ books' = IF r.raised THEN books
                    ELSE [books EXCEPT ![bi].bookmarks = r.value]
        /\ Goto("get_bookmarks", r.raised, bi, Len(books))
        /\ bi' = IF ~r.raised /\ bi < Len(books) THEN bi + 1 ELSE bi
  /\ UNCHANGED <<store, con, doc, file>>

Close ==
  /\ pc = "close"
  /\ con' = "closed"
  /\ Goto("close", FALSE, bi, Len(books))
  /\ UNCHANGED <<store, bi, books, doc, file>>

\* export(), up to the end of `with doc:`.
Render ==
  /\ pc = "render"
  /\ \E refuses \in BOOLEAN :
       LET raised == refuses /\ passes_none_child(books)
       IN /\ doc' = IF raised THEN doc ELSE render_all(books)
          /\ Goto("render", raised, bi, Len(books))
  /\ UNCHANGED <<store, con, bi, books, file>>

\* export(), open(path, 'w') and f.write(doc.render()).
Write ==
  /\ pc = "write"
  /\ file' = [state |-> "written", content |-> doc]
  /\ Goto("write", FALSE, bi, Len(books))
  /\ UNCHANGED <<store, con, bi, books, doc>>

Next ==
  \/ Connect
  \/ GetBooks
  \/ GetFileName
  \/ GetHighlights
  \/ GetNotes
  \/ GetBookmarks
  \/ Close
  \/ Render
  \/ Write

Spec == Init /\ [][Next]_vars

SpecPage == InitPage /\ [][Next]_vars

----------------------------------------------------------------------------
(* What the properties below read off the store and the document *)

BookIds == {BooksTable[k][1] : k \in 1..Len(BooksTable)}

Kinds == {"highlight", "note", "bookmark"}

ItemIndexes == 1..Len(store.Items)

\* Item k carries a row of tag `tagid` with value `val`.
HasTag(k, tagid, val) ==
  \E j \in 1..Len(store.Tags) :
     /\ store.Tags[j].ItemID = store.Items[k].OID
     /\ store.Tags[j].TagID = tagid
     /\ store.Tags[j].Val = val

\* Item k is an active item of book B of kind T.
Qualifies(k, B, T) ==
  /\ store.Items[k].ParentID = B
  /\ store.Items[k].State = 0
  /\ HasTag(k, 1, Str(T))

Range(s) == {s[k] : k \in 1..Len(s)}

Rendered == pc \in {"write", "done"}

NonEmpty(b) == Len(b.highlights) > 0 \/ Len(b.notes) > 0 \/ Len(b.bookmarks) > 0

\* The books that have something to show, in order.
Shown == SelectSeq(books, NonEmpty)

Headings(d) == [k \in 1..Len(d.sections) |-> d.sections[k].h3]

\* The list under heading `title` of a book's part of the document.
ListOf(d, title) ==
  LET hit == SelectSeq(d.sections, LAMBDA x : x.h3 = title)
  IN IF hit = <<>> THEN <<>> ELSE hit[1].ol

\* The elements inside the div of a list item.
Children(li) == li[2][2]

Tagged(li, tag) == SelectSeq(Children(li), LAMBDA e : e[1] = tag)

\* The value of the first row of tag `tagid` on item `id`, or None.
TagVal(id, tagid) ==
  LET hit == SelectSeq(store.Tags, LAMBDA t : t.ItemID = id /\ t.TagID = tagid)
  IN IF hit = <<>> THEN None ELSE hit[1].Val

\* The 'text' of a JSON tag value; Missing when the value is absent, is not
\* JSON or has no 'text'.
Missing == <<"missing">>

TextOf(val) ==
  IF val = None \/ val[1] # "json" THEN Missing
  ELSE IF "text" \notin DOMAIN val[2] THEN Missing ELSE val[2].text

\* The quoted passage of item `id`: None when it has no bm.quotation tag.
QuoteText(id) == IF TagVal(id, 2) = None THEN None ELSE TextOf(TagVal(id, 2))

\* The ids the lookup returns for book b and kind T.
Ids(b, T) == select_items(store, b.oid, Str(T))

\* The part of the document that shows books[k] (a book that is shown).
DocPart(k) == doc[Cardinality({j \in 1..k : NonEmpty(books[j])})]

Last(s) == s[Len(s)]

----------------------------------------------------------------------------
(* C4 *)

\* C4: for every book id B and type T in {highlight, note, bookmark},
\* select_items(B, T) returns exactly the ids of the items whose parent is B,
\* whose State is 0 and whose bm.type tag equals T.
C4_SelectItemsExact ==
  (pc = "get_highlights" /\ bi = 1) =>
    \A B \in BookIds, T \in Kinds :
       Range(select_items(store, B, Str(T)))
         = {store.Items[k].OID : k \in {i \in ItemIndexes : Qualifies(i, B, T)}}

\* A soft-deleted highlight and an active one of the same book.
C4_Witness ==
  /\ pc = "get_highlights"
  /\ \E k \in ItemIndexes, m \in ItemIndexes :
        /\ store.Items[k].ParentID = 1 /\ store.Items[k].State = 1
        /\ HasTag(k, 1, Str("highlight"))
        /\ Qualifies(m, 1, "highlight")
        /\ select_items(store, 1, Str("highlight")) = <<store.Items[m].OID>>

----------------------------------------------------------------------------
(* C5, C6 *)

\* C5: a book has a part in the rendered document if and only if it has at
\* least one highlight, note or bookmark; a book with none emits nothing.
C5_SectionIffAnnotated ==
  Rendered =>
    /\ Len(doc) = Len(Shown)
    /\ \A k \in 1..Len(books) :
          (\E j \in 1..Len(doc) : doc[j].h2 = books[k].title) <=> NonEmpty(books[k])

\* A finished run with one book shown and one book left out.
C5_Witness ==
  /\ pc = "done"
  /\ \E k \in 1..Len(books), m \in 1..Len(books) :
        NonEmpty(books[k]) /\ ~NonEmpty(books[m])
  /\ Len(doc) = 1

\* The headings a book must get: those of its non-empty kinds, in the order
\* bookmarks, highlights, notes.
ExpectedHeadings(b) ==
  (IF Len(b.bookmarks) > 0 THEN <<"Bookmarks">> ELSE <<>>)
  \o (IF Len(b.highlights) > 0 THEN <<"Highlights">> ELSE <<>>)
  \o (IF Len(b.notes) > 0 THEN <<"Notes">> ELSE <<>>)

\* C6: every rendered book has a section for a kind exactly when it has an
\* entity of that kind, the sections in the order bookmarks, highlights,
\* notes; a book with one text highlight and nothing else gets one
\* Highlights section of one list item carrying that text.
C6_SectionsPerKindInOrder ==
  Rendered =>
    \A j \in 1..Len(doc) :
       /\ j <= Len(Shown)
       /\ Headings(doc[j]) = ExpectedHeadings(Shown[j])
       /\ (/\ Len(Shown[j].highlights) = 1
           /\ Shown[j].highlights[1] = Highlight(Str("Hello world"), None)
           /\ Len(Shown[j].notes) = 0
           /\ Len(Shown[j].bookmarks) = 0)
          => doc[j].sections
               = << [h3 |-> "Highlights",
                     ol |-> << <<"li", <<"div", <<p(Str("Hello world"))>> >> >> >>] >>

\* A finished run that rendered a book with bookmarks and highlights.
C6_Witness ==
  /\ pc = "done"
  /\ \E j \in 1..Len(doc) : Headings(doc[j]) = <<"Bookmarks", "Highlights">>

----------------------------------------------------------------------------
(* C7 *)

\* C7: in a finished run, for every book and kind, the i-th entity and the
\* i-th rendered list item come from the i-th item id the lookup returned:
\* same length, same order, nothing doubled or left out.
C7_OrderPreserved ==
  pc = "done" =>
    \A k \in 1..Len(books) :
       LET b == books[k]
           hs == Ids(b, "highlight")
           ns == Ids(b, "note")
           bs == Ids(b, "bookmark")
       IN /\ Len(b.highlights) = Len(hs)
          /\ \A i \in 1..Len(hs) :
                /\ b.highlights[i].text = QuoteText(hs[i])
                /\ b.highlights[i].snapshot = TagVal(hs[i], 5)
          /\ Len(b.notes) = Len(ns)
          /\ \A i \in 1..Len(ns) :
                /\ b.notes[i].quotation = QuoteText(ns[i])
                /\ b.notes[i].note = TextOf(TagVal(ns[i], 3))
          /\ Len(b.bookmarks) = Len(bs)
          /\ \A i \in 1..Len(bs) : b.bookmarks[i].text = QuoteText(bs[i])
          /\ NonEmpty(b) =>
               LET d == DocPart(k)
               IN /\ Len(ListOf(d, "Highlights")) = Len(hs)
                  /\ \A i \in 1..Len(hs) :
                        Tagged(ListOf(d, "Highlights")[i], "p")[1] = p(QuoteText(hs[i]))
                  /\ Len(ListOf(d, "Notes")) = Len(ns)
                  /\ \A i \in 1..Len(ns) :
                        Tagged(ListOf(d, "Notes")[i], "p")[1] = p(TextOf(TagVal(ns[i], 3)))
                  /\ Len(ListOf(d, "Bookmarks")) = Len(bs)
                  /\ \A i \in 1..Len(bs) :
                        Tagged(ListOf(d, "Bookmarks")[i], "p")[2]
                          = p(fstr("Text: ", QuoteText(bs[i])))

\* A finished run with a book of two highlights that differ.
C7_Witness ==
  /\ pc = "done"
  /\ \E k \in 1..Len(books) :
        /\ Len(books[k].highlights) = 2
        /\ books[k].highlights[1] # books[k].highlights[2]

----------------------------------------------------------------------------
(* C2, C3 *)

\* C2 as stated: every rendered highlight holds exactly one of a text
\* element and an image element, never both and never neither.
C2_ExactlyOneOfTextOrImage ==
  Rendered =>
    \A j \in 1..Len(doc) :
       \A i \in 1..Len(ListOf(doc[j], "Highlights")) :
          LET li == ListOf(doc[j], "Highlights")[i]
          IN Len(Tagged(li, "p")) + Len(Tagged(li, "img")) = 1

\* C2 as amended: every rendered highlight holds exactly one text element,
\* and with it one image element exactly when the item has a bm.image value;
\* it never holds neither, and holds both when there is an image.
C2_TextAlwaysImageIffSnapshot ==
  Rendered =>
    \A k \in 1..Len(books) :
       NonEmpty(books[k]) =>
         LET ol == ListOf(DocPart(k), "Highlights")
             hs == Ids(books[k], "highlight")
         IN /\ Len(ol) = Len(hs)
            /\ \A i \in 1..Len(ol) :
                  /\ Len(Tagged(ol[i], "p")) = 1
                  /\ Len(Tagged(ol[i], "img"))
                       = (IF TagVal(hs[i], 5) # None THEN 1 ELSE 0)

\* A rendered highlight that holds a text element and an image element.
C2_Witness ==
  /\ pc = "done"
  /\ \E j \in 1..Len(doc) :
        \E i \in 1..Len(ListOf(doc[j], "Highlights")) :
           LET li == ListOf(doc[j], "Highlights")[i]
           IN Len(Tagged(li, "p")) = 1 /\ Len(Tagged(li, "img")) = 1

\* C3: a highlight whose quotation decodes to "Snapshot" and whose bm.image
\* value is X renders as the embedded image of X with no text line.
C3_SnapshotRendersImageOnly ==
  Rendered =>
    \A k \in 1..Len(books) :
       NonEmpty(books[k]) =>
         LET ol == ListOf(DocPart(k), "Highlights")
             hs == Ids(books[k], "highlight")
         IN \A i \in 1..Len(hs) :
               (QuoteText(hs[i]) = Str("Snapshot") /\ TagVal(hs[i], 5) = Bytes("X"))
               => /\ Tagged(ol[i], "img") = <<img(<<"b64", "X">>)>>
                  /\ Tagged(ol[i], "p") = <<>>

----------------------------------------------------------------------------
(* C1 *)

\* Item k is a note whose bm.note value does not decode.
BadNote(k) == TextOf(TagVal(store.Items[k].OID, 3)) = Missing

\* Book B has exactly one such note among its active notes, and nothing
\* else in the store fails to decode.
OneBadNoteOnly(B) ==
  /\ Cardinality({k \in ItemIndexes : Qualifies(k, B, "note") /\ BadNote(k)}) = 1
  /\ \A k \in ItemIndexes :
        LET id == store.Items[k].OID
        IN /\ QuoteText(id) # Missing
           /\ \A A \in BookIds :
                 /\ Qualifies(k, A, "note") /\ BadNote(k) => A = B
                 /\ Qualifies(k, A, "bookmark") => ~bookmark_of(store, id).raised

\* C1: when exactly one note of a book fails to decode, the run still
\* completes, and the book keeps its other notes and all of its highlights
\* and bookmarks; only that note is missing.
C1_BadNoteDroppedRunCompletes ==
  \A B \in BookIds :
     OneBadNoteOnly(B) =>
       /\ ~(pc = "aborted" /\ Last(trace) = "get_notes")
       /\ pc = "done" =>
            \A k \in 1..Len(books) :
               books[k].oid = B =>
                 /\ Len(books[k].notes) = Len(Ids(books[k], "note")) - 1
                 /\ Len(books[k].highlights) = Len(Ids(books[k], "highlight"))
                 /\ Len(books[k].bookmarks) = Len(Ids(books[k], "bookmark"))

----------------------------------------------------------------------------
(* C9, C10 *)

\* The steps of the run so far that C9 speaks of.
Steps == SelectSeq(trace, LAMBDA st : st # "get_file_name")

PerBook == <<"get_highlights", "get_notes", "get_bookmarks">>

Builders(n) == [k \in 1..(3 * n) |-> PerBook[((k - 1) % 3) + 1]]

\* C9 as stated: a successful run opens the store, enumerates the books,
\* runs the three builders per book, renders, writes the file and closes the
\* store, in this order; the store is closed only once the file is written.
C9_CloseAfterWrite ==
  /\ pc = "done" =>
       Steps = <<"connect", "get_books">> \o Builders(Len(books))
                 \o <<"render", "write", "close">>
  /\ con = "closed" => file.state = "written"

\* C9 as amended: a successful run opens the store, enumerates the books,
\* runs the three builders per book, closes the store, renders and writes
\* the file, in this order; the file is written only once the store is closed.
C9_CloseBeforeRender ==
  /\ pc = "done" =>
       Steps = <<"connect", "get_books">> \o Builders(Len(books))
                 \o <<"close", "render", "write">>
  /\ file.state = "written" => con = "closed"

\* A successful run over two books, one of them shown.
C9_Witness ==
  /\ pc = "done"
  /\ Len(books) = 2
  /\ Len(doc) > 0
  /\ con = "closed"
  /\ file.state = "written"

\* C10: export.html is written only after every book has its file name and
\* its three collections; when extraction fails for any item of any book the
\* file is never touched.
C10_NoOutputOnFailure ==
  file # Untouched =>
    /\ {books[k].oid : k \in 1..Len(books)} = BookIds
    /\ \A k \in 1..Len(books) :
          LET hs == get_highlights(store, books[k].oid)
              ns == get_notes(store, books[k].oid)
              bs == get_bookmarks(store, books[k].oid)
          IN /\ books[k].file_name = get_file_name(store, books[k].oid)
             /\ ~hs.raised /\ books[k].highlights = hs.value
             /\ ~ns.raised /\ books[k].notes = ns.value
             /\ ~bs.raised /\ books[k].bookmarks = bs.value

\* A run that filled the first book and then failed on the second: nothing
\* was written.
C10_Witness ==
  /\ pc = "aborted"
  /\ bi = 2
  /\ NonEmpty(books[1])
  /\ Last(trace) \in Range(PerBook)
  /\ file = Untouched

----------------------------------------------------------------------------
(* C8, under SpecPage *)

\* The query of the bookmark's anchor.
StoreQuery == TagVal(ItemOID(1), 4)[2].anchor[2].query

PagePairs == SelectSeq(StoreQuery, LAMBDA nv : nv.name = "page")

NonBlankPagePairs == SelectSeq(PagePairs, LAMBDA nv : nv.value # "")

BookmarkBuilt == books # <<>> /\ Len(books[1].bookmarks) = 1

\* C8 as stated: the bookmark's page is the integer value of the first
\* occurrence of page in the query, whatever else the query holds and
\* wherever page stands in it.
C8_FirstOccurrenceUsed ==
  /\ BookmarkBuilt =>
       /\ PagePairs[1].value \in DOMAIN Decimal
       /\ books[1].bookmarks[1].page = Decimal[PagePairs[1].value]
  /\ (PagePairs # <<>> /\ PagePairs[1].value \in DOMAIN Decimal) => pc # "aborted"

\* C8 as amended: the bookmark's page is the integer value of the first
\* occurrence of page that has a non-empty value, whatever else the query
\* holds and wherever page stands in it; occurrences with an empty value
\* are passed over.
C8_FirstNonBlankOccurrenceUsed ==
  /\ BookmarkBuilt =>
       /\ NonBlankPagePairs # <<>>
       /\ NonBlankPagePairs[1].value \in DOMAIN Decimal
       /\ books[1].bookmarks[1].page = Decimal[NonBlankPagePairs[1].value]
  /\ (NonBlankPagePairs # <<>> /\ NonBlankPagePairs[1].value \in DOMAIN Decimal)
       => pc # "aborted"

\* A finished run whose query has another parameter first and then two page
\* values that differ.
C8_Witness ==
  /\ pc = "done"
  /\ StoreQuery # <<>>
  /\ StoreQuery[1].name = "offs"
  /\ Len(NonBlankPagePairs) >= 2
  /\ NonBlankPagePairs[1].value # NonBlankPagePairs[2].value
  /\ books[1].bookmarks[1].page = Decimal[NonBlankPagePairs[1].value]

====
